---- MODULE Spec2Model ----
(***************************************************************************)
(* Series Complete for Plex, Home Assistant integration.                   *)
(*                                                                         *)
(*   coordinator.py  SeriesCompleteCoordinator: one POST per refresh,      *)
(*                   aggregation of the series records into a snapshot     *)
(*   sensor.py       five sensors projecting the coordinator's snapshot    *)
(*   __init__.py     entry setup (first refresh) and unload                *)
(*   config_flow.py  supervisor discovery, manual setup, auto-detection    *)
(*                                                                         *)
(* Python's None and optional values are sequences of length <= 1:         *)
(* <<>> is None, <<v>> is the value v.  A dict is a function whose DOMAIN  *)
(* is its set of keys, so dict.get(key, default) is Get.  Percentages are  *)
(* kept exactly: the ratio test of the classification by cross-            *)
(* multiplication, completion_pct in tenths of a percent.                  *)
(***************************************************************************)
EXTENDS Integers, Sequences, FiniteSets, Bags, TLC

VARIABLES
    \* ---- coordinator / entry lifecycle (coordinator.py, __init__.py)
    data,            \* coordinator.data: None or the last published snapshot
    phase,           \* "idle" | "fetching" | "ready" | "failed"
    last,            \* the response and the end of the latest finished poll
    got200,          \* history: some finished poll received status 200
    inflight,        \* number of _async_update_data calls in progress
    wait,            \* ticks until the next scheduled refresh
    update_interval, \* the coordinator's update_interval (None or ticks)
    entry_state,     \* "not_loaded" | "setup_in_progress" | "loaded" | "setup_retry"
    \* ---- one poll over a one-record list / the percentage of three counters
    probe,           \* the input: a series record, or the three counters
    probe_out,       \* None, or the snapshot / percentage computed from it
    \* ---- config flows (config_flow.py)
    entries,         \* the config entries of the domain
    flows,           \* flows in progress
    outcome          \* what the latest flow step did

vars == <<data, phase, last, got200, inflight, wait, update_interval, entry_state,
          probe, probe_out, entries, flows, outcome>>

coordVars == <<data, phase, last, got200, inflight, wait, update_interval, entry_state>>
probeVars == <<probe, probe_out>>
flowVars == <<entries, flows, outcome>>

(***************************************************************************)
(* Bounds                                                                  *)
(***************************************************************************)
MaxLen == 2          \* longest series list of a response
MaxLenLive == 1      \* the same, under the fair specification
MaxInterval == 2     \* longest scan interval, in ticks
MaxEps == 10         \* largest episode number of the single-record polls
MaxComplete == 2000  \* largest count of complete series of the percentage runs
MaxOther == 1        \* largest count of incomplete / critical series there

None == <<>>
Some(v) == <<v>>

\* dict.get(key, default)
Get(d, key, default) == IF key \in DOMAIN d THEN d[key] ELSE default

(***************************************************************************)
(* Series records and responses                                            *)
(***************************************************************************)
\* A series record: a dict holding any subset of the two keys the
\* coordinator reads, with integer values.
RecordsOver(totals, counts) ==
    { [k \in {} |-> 0] }
    \cup { [totalEpisodes |-> t] : t \in totals }
    \cup { [episode_count |-> c] : c \in counts }
    \cup { [totalEpisodes |-> t, episode_count |-> c] : t \in totals, c \in counts }

\* The records of the polled lists: no key, one key, totalEpisodes <= 0,
\* and ratios of 0, 50, 100 and 200 percent.
SmallRecords ==
    { [k \in {} |-> 0],
      [episode_count |-> 2],
      [totalEpisodes |-> 2],
      [totalEpisodes |-> 0, episode_count |-> 1],
      [totalEpisodes |-> -1, episode_count |-> 1],
      [totalEpisodes |-> 2, episode_count |-> 0],
      [totalEpisodes |-> 2, episode_count |-> 1],
      [totalEpisodes |-> 2, episode_count |-> 2],
      [totalEpisodes |-> 1, episode_count |-> 2] }

SeqUpTo(S, n) == UNION { [1 .. k -> S] : k \in 0 .. n }

JsonList(l) == [type |-> "list", value |-> l]
JsonObject == [type |-> "object", value |-> <<>>]
JsonNull == [type |-> "null", value |-> <<>>]

HttpResponse(status, body) == [kind |-> "response", status |-> status, body |-> body]
ClientError == [kind |-> "client_error", status |-> 0, body |-> JsonNull]
Timeout == [kind |-> "timeout", status |-> 0, body |-> JsonNull]

\* What the POST to /api/get-series can end in, with lists of at most n records.
Responses(n) ==
    { HttpResponse(200, JsonList(l)) : l \in SeqUpTo(SmallRecords, n) }
    \cup { HttpResponse(200, JsonObject), HttpResponse(200, JsonNull) }
    \cup { HttpResponse(s, JsonNull) : s \in {404, 500} }
    \cup { ClientError, Timeout }

(***************************************************************************)
(* SeriesCompleteCoordinator._async_update_data                            *)
(***************************************************************************)
\* Mutant: the thresholds taken strictly (pct > k).
PctAbove(owned_eps, total_eps, k) == owned_eps * 100 > k * total_eps

\* pct >= k, for pct = (owned_eps / total_eps) * 100 and total_eps > 0
PctAtLeast(owned_eps, total_eps, k) == owned_eps * 100 >= k * total_eps

\* Mutant: only the truthiness of totalEpisodes is tested, not its sign.
ClassifyTruthy(s) ==
    LET total_eps == Get(s, "totalEpisodes", 0)
        owned_eps == Get(s, "episode_count", 0)
    IN  IF total_eps # 0
        THEN IF owned_eps * 100 >= 100 * total_eps THEN "complete"
             ELSE IF owned_eps * 100 < 50 * total_eps THEN "critical"
             ELSE "incomplete"
        ELSE "skipped"

\* The branch of the loop body a record takes.
Classify(s) ==
    LET total_eps == Get(s, "totalEpisodes", 0)
        owned_eps == Get(s, "episode_count", 0)
    IN  IF total_eps # 0 /\ total_eps > 0
        THEN IF PctAtLeast(owned_eps, total_eps, 100) THEN "complete"
             ELSE IF ~PctAtLeast(owned_eps, total_eps, 50) THEN "critical"
             ELSE "incomplete"
        ELSE "skipped"

\* The counter named cls after the loop over series_list.
CountClass(series_list, cls) ==
    Cardinality({ i \in 1 .. Len(series_list) : Classify(series_list[i]) = cls })

RECURSIVE Gcd(_, _)
Gcd(a, b) == IF b = 0 THEN a ELSE Gcd(b, a % b)

RECURSIVE IsPowerOfTwo(_)
IsPowerOfTwo(n) == n = 1 \/ (n > 1 /\ n % 2 = 0 /\ IsPowerOfTwo(n \div 2))

\* Mutant: the percentage is truncated to one decimal, not rounded.
RoundPctDown(num, den) == { (num * 1000) \div den }

\* round(num / den * 100, 1) in tenths of a percent, 0 <= num <= den, den > 0.
\* Python rounds the double it is given to the nearest tenth.  Away from a
\* tie that is the nearest tenth of the exact quotient.  At an exact tie
\* x.x5 the double decides: when num/den is a binary fraction the double is
\* exact and the tie goes to the even tenth; otherwise the double lies just
\* above or just below the tie, and either neighbour can come out.
RoundPct(num, den) ==
    LET q == (num * 1000) \div den
        r == (num * 1000) % den
        even == IF q % 2 = 0 THEN q ELSE q + 1
    IN  IF 2 * r < den THEN {q}
        ELSE IF 2 * r > den THEN {q + 1}
        ELSE IF IsPowerOfTwo(den \div Gcd(num, den)) THEN {even}
        ELSE {q, q + 1}

\* The values completion_pct can take, in tenths of a percent.
CompletionPct(complete, incomplete, critical) ==
    LET analyzed == complete + incomplete + critical
    IN  IF analyzed > 0 THEN RoundPct(complete, analyzed) ELSE {0}

EmptySnapshot ==
    [total |-> 0, complete |-> 0, incomplete |-> 0, critical |-> 0,
     completion_pct |-> 0, series |-> <<>>]

\* The dict built for a response of status 200.
Snapshots(body) ==
    LET series_list == IF body.type = "list" THEN body.value ELSE <<>>
        complete == CountClass(series_list, "complete")
        incomplete == CountClass(series_list, "incomplete")
        critical == CountClass(series_list, "critical")
    IN  { [total |-> Len(series_list), complete |-> complete,
           incomplete |-> incomplete, critical |-> critical,
           completion_pct |-> p, series |-> series_list]
          : p \in CompletionPct(complete, incomplete, critical) }

\* Mutant: a body that is not a list is refused with UpdateFailed.
UpdateDataStrict(resp) ==
    IF resp.kind \in {"client_error", "timeout"}
    THEN { [raised |-> TRUE, value |-> EmptySnapshot] }
    ELSE IF resp.status = 200 /\ resp.body.type = "list"
    THEN { [raised |-> FALSE, value |-> d] : d \in Snapshots(resp.body) }
    ELSE IF resp.status = 200
    THEN { [raised |-> TRUE, value |-> EmptySnapshot] }
    ELSE { [raised |-> FALSE, value |-> EmptySnapshot] }

\* How _async_update_data can end for a response: it raises UpdateFailed, or
\* it returns a dict.
UpdateData(resp) ==
    IF resp.kind \in {"client_error", "timeout"}
    THEN { [raised |-> TRUE, value |-> EmptySnapshot] }
    ELSE IF resp.status = 200
    THEN { [raised |-> FALSE, value |-> d] : d \in Snapshots(resp.body) }
    ELSE { [raised |-> FALSE, value |-> EmptySnapshot] }

(***************************************************************************)
(* SeriesCompleteSensor.native_value and the SENSORS descriptions          *)
(***************************************************************************)
SensorKeys == {"total", "complete", "incomplete", "critical", "completion"}

\* SENSORS[key].value_fn
ValueFn(key, d) ==
    CASE key = "total" -> Get(d, "total", 0)
      [] key = "complete" -> Get(d, "complete", 0)
      [] key = "incomplete" -> Get(d, "incomplete", 0)
      [] key = "critical" -> Get(d, "critical", 0)
      [] key = "completion" -> Get(d, "completion_pct", 0)

\* The sensor's native value for coordinator.data = d.
NativeValue(key, d) == IF d = None THEN None ELSE Some(ValueFn(key, d[1]))

(***************************************************************************)
(* Entry lifecycle and the scheduled refresh                               *)
(***************************************************************************)
\* const.py is not part of the sources at hand; the default is some
\* admissible interval.
DEFAULT_SCAN_INTERVAL == MaxInterval

EntryData == { [scan_interval |-> n] : n \in 1 .. MaxInterval }

\* Mutant: the coordinator is built without an update_interval.
UpdateIntervalNone(entry_data) == None

\* SeriesCompleteCoordinator.__init__: update_interval of the new coordinator.
UpdateInterval(entry_data) ==
    Some(Get(entry_data, "scan_interval", DEFAULT_SCAN_INTERVAL))

NoPoll == [kind |-> "none", status |-> 0, type |-> "null", result |-> "none"]

PollRecord(resp, out) ==
    [kind |-> resp.kind, status |-> resp.status, type |-> resp.body.type,
     result |-> IF out.raised THEN "update_failed" ELSE "returned"]

InitCoord ==
    /\ data = None
    /\ phase = "idle"
    /\ last = NoPoll
    /\ got200 = FALSE
    /\ inflight = 0
    /\ wait = 0
    /\ update_interval = None
    /\ entry_state = "not_loaded"

\* async_setup_entry up to the await of the first refresh: a new coordinator
\* and its first _async_update_data call.
SetupEntry ==
    /\ entry_state \in {"not_loaded", "setup_retry"}
    /\ \E entry_data \in EntryData : update_interval' = UpdateInterval(entry_data)
    /\ data' = None
    /\ got200' = FALSE
    /\ last' = NoPoll
    /\ phase' = "fetching"
    /\ inflight' = inflight + 1
    /\ wait' = 0
    /\ entry_state' = "setup_in_progress"
    /\ UNCHANGED <<probeVars, flowVars>>

\* The scheduled refresh fires: the next _async_update_data call starts.
StartPoll ==
    /\ entry_state = "loaded"
    /\ phase \in {"ready", "failed"}
    /\ update_interval # None
    /\ wait = 0
    /\ phase' = "fetching"
    /\ inflight' = inflight + 1
    /\ UNCHANGED <<data, last, got200, wait, update_interval, entry_state,
                   probeVars, flowVars>>

\* One tick of the refresh timer.
TimePasses ==
    /\ entry_state = "loaded"
    /\ phase \in {"ready", "failed"}
    /\ wait > 0
    /\ wait' = wait - 1
    /\ UNCHANGED <<data, phase, last, got200, inflight, update_interval,
                   entry_state, probeVars, flowVars>>

\* The POST ends in resp and _async_update_data ends in out.  A returned dict
\* becomes coordinator.data; UpdateFailed leaves it alone.  The first refresh
\* of a setup decides whether the entry loads (and the sensors are added) or
\* the setup is retried; later refreshes are followed by the next one after
\* update_interval.
FinishPollWith(resp, out) ==
    /\ phase = "fetching"
    /\ inflight' = inflight - 1
    /\ last' = PollRecord(resp, out)
    /\ got200' = (got200 \/ (resp.kind = "response" /\ resp.status = 200))
    /\ data' = IF out.raised THEN data ELSE Some(out.value)
    /\ phase' = IF out.raised THEN "failed" ELSE "ready"
    /\ entry_state' = IF entry_state = "setup_in_progress"
                      THEN (IF out.raised THEN "setup_retry" ELSE "loaded")
                      ELSE entry_state
    /\ wait' = IF update_interval = None THEN 0 ELSE update_interval[1]
    /\ UNCHANGED <<update_interval, probeVars, flowVars>>

FinishPoll(n) ==
    \E resp \in Responses(n) : \E out \in UpdateData(resp) : FinishPollWith(resp, out)

\* async_unload_entry: the platforms are unloaded and polling stops.
UnloadEntry ==
    /\ entry_state = "loaded"
    /\ entry_state' = "not_loaded"
    /\ phase' = "idle"
    /\ inflight' = 0
    /\ wait' = 0
    /\ UNCHANGED <<data, last, got200, update_interval, probeVars, flowVars>>

InitOthers ==
    /\ probe = None
    /\ probe_out = None
    /\ entries = EmptyBag
    /\ flows = EmptyBag
    /\ outcome = None

Init == InitCoord /\ InitOthers

Next ==
    \/ SetupEntry
    \/ StartPoll
    \/ TimePasses
    \/ FinishPoll(MaxLen)
    \/ UnloadEntry

Spec == Init /\ [][Next]_vars

NextLive ==
    \/ SetupEntry
    \/ StartPoll
    \/ TimePasses
    \/ FinishPoll(MaxLenLive)
    \/ UnloadEntry

\* The host's timer runs and a due refresh is started; nothing obliges a
\* response to arrive, an entry to be set up or to be unloaded.
SpecLive == Init /\ [][NextLive]_vars /\ WF_vars(TimePasses) /\ WF_vars(StartPoll)

(***************************************************************************)
(* One poll whose response is a list of one record                         *)
(***************************************************************************)
InitClassify ==
    /\ InitCoord
    /\ probe \in { Some(s) : s \in RecordsOver(-1 .. MaxEps, -1 .. MaxEps) }
    /\ probe_out = None
    /\ entries = EmptyBag
    /\ flows = EmptyBag
    /\ outcome = None

PollOneRecord ==
    /\ probe_out = None
    /\ \E out \in UpdateData(HttpResponse(200, JsonList(<<probe[1]>>))) :
          probe_out' = Some(out.value)
    /\ UNCHANGED <<probe, coordVars, flowVars>>

NextClassify == PollOneRecord

SpecClassify == InitClassify /\ [][NextClassify]_vars

(***************************************************************************)
(* The percentage of three counters                                        *)
(***************************************************************************)
InitPct ==
    /\ InitCoord
    /\ probe \in { Some([complete |-> c, incomplete |-> i, critical |-> k]) :
                     c \in 0 .. MaxComplete, i \in 0 .. MaxOther, k \in 0 .. MaxOther }
    /\ probe_out = None
    /\ entries = EmptyBag
    /\ flows = EmptyBag
    /\ outcome = None

ComputePct ==
    /\ probe_out = None
    /\ \E p \in CompletionPct(probe[1].complete, probe[1].incomplete, probe[1].critical) :
          probe_out' = Some(p)
    /\ UNCHANGED <<probe, coordVars, flowVars>>

NextPct == ComputePct

SpecPct == InitPct /\ [][NextPct]_vars

(***************************************************************************)
(* config_flow.py                                                          *)
(***************************************************************************)
ADDON_PORT == 3000
ADDON_SLUG == "series-complete-plex"
FALLBACK_HOSTNAMES ==
    << "e81ba94f-series-complete-plex", "local-series-complete-plex", ADDON_SLUG >>

\* const.py is not part of the sources at hand: the default host is a name
\* of its own.
DEFAULT_HOST == "DEFAULT_HOST"

\* What a GET to /api/test-connection can end in.
Http(status) == [kind |-> "response", status |-> status]
ProbeResults ==
    { Http(200), Http(404), [kind |-> "client_error", status |-> 0],
      [kind |-> "timeout", status |-> 0] }

\* Mutant: any response validates, whatever its status.
ValidateAnyResponse(r) == r.kind = "response"

\* _validate_connection, for the end r of its GET
ValidateConnection(r) ==
    IF r.kind = "response" THEN r.status = 200 ELSE FALSE

\* _detect_app from the i-th hostname on, results[i] being the end of the GET
\* to FALLBACK_HOSTNAMES[i]; probed lists the hostnames a GET was sent to.
RECURSIVE DetectFrom(_, _, _)
DetectFrom(i, results, probed) ==
    IF i > Len(FALLBACK_HOSTNAMES)
    THEN [result |-> None, probed |-> probed]
    ELSE LET hostname == FALLBACK_HOSTNAMES[i]
             r == results[i]
         IN  IF r.kind = "response" /\ r.status = 200
             THEN [result |-> Some(<<hostname, ADDON_PORT>>),
                   probed |-> Append(probed, hostname)]
             ELSE DetectFrom(i + 1, results, Append(probed, hostname))

\* Mutant: the first hostname that responds at all is returned.
RECURSIVE DetectAnyFrom(_, _, _)
DetectAnyFrom(i, results, probed) ==
    IF i > Len(FALLBACK_HOSTNAMES)
    THEN [result |-> None, probed |-> probed]
    ELSE IF results[i].kind = "response"
    THEN [result |-> Some(<<FALLBACK_HOSTNAMES[i], ADDON_PORT>>),
          probed |-> Append(probed, FALLBACK_HOSTNAMES[i])]
    ELSE DetectAnyFrom(i + 1, results, Append(probed, FALLBACK_HOSTNAMES[i]))

DetectAppAnyResponse(results) == DetectAnyFrom(1, results, <<>>)

DetectApp(results) == DetectFrom(1, results, <<>>)

AllProbeResults == [1 .. Len(FALLBACK_HOSTNAMES) -> ProbeResults]

\* ---- auto-detection alone, for every combination of probe results
InitDetect ==
    /\ InitCoord
    /\ probe \in { Some(results) : results \in AllProbeResults }
    /\ probe_out = None
    /\ entries = EmptyBag
    /\ flows = EmptyBag
    /\ outcome = None

RunDetect ==
    /\ probe_out = None
    /\ probe_out' = Some(DetectApp(probe[1]))
    /\ UNCHANGED <<probe, coordVars, flowVars>>

NextDetect == RunDetect

SpecDetect == InitDetect /\ [][NextDetect]_vars

\* ---- the flows
MaxFlows == 2        \* flows in progress at a time

Slugs == {ADDON_SLUG, "other-addon"}
\* discovery_info.config: host and port are optional keys
DiscoveryConfigs == { [k \in {} |-> 0], [host |-> "h1"], [host |-> "h1", port |-> 3001] }
\* what the user form submits; scan_interval is an optional key
UserInputs ==
    { [host |-> "h1", port |-> ADDON_PORT, scan_interval |-> DEFAULT_SCAN_INTERVAL],
      [host |-> "h1", port |-> 3001],
      [host |-> "h2", port |-> ADDON_PORT, scan_interval |-> 1] }
\* the probes of the flows: every hostname answers 200 or times out
FlowProbeResults ==
    [1 .. Len(FALLBACK_HOSTNAMES) -> {Http(200), [kind |-> "timeout", status |-> 0]}]
NoRequest == [kind |-> "none", status |-> 0]

One(f) == SetToBag({f})

\* The unique ids f"hassio_{slug}" and f"manual_{host}_{port}", kept as the
\* tuples of their parts: the prefixes differ and the decimal port has no
\* underscore, so equal strings have equal parts.
HassioUniqueId(slug) == <<"hassio", slug>>
ManualUniqueId(host, port) == <<"manual", host, ToString(port)>>

\* Mutant: the check for a configured unique id is left out.
ConfiguredNever(uid) == FALSE

\* _abort_if_unique_id_configured: is there an entry with this unique id
Configured(uid) == \E e \in BagToSet(entries) : e.unique_id = uid
\* async_set_unique_id: another flow in progress holds this unique id
InProgress(uid) == \E f \in BagToSet(flows) : f.unique_id = Some(uid)

NoErrors == [k \in {} |-> ""]

Result(handler, input, validation, configured, type, reason, errors, detected, created) ==
    Some([handler |-> handler, input |-> input, validation |-> validation,
          configured |-> configured, type |-> type, reason |-> reason,
          errors |-> errors, detected |-> detected, created |-> created])

\* async_step_hassio, through to the form of async_step_hassio_confirm
StepHassio(slug, config) ==
    LET host == Get(config, "host", DEFAULT_HOST)
        port == Get(config, "port", ADDON_PORT)
        uid == HassioUniqueId(slug)
    IN  /\ BagCardinality(flows) < MaxFlows
        /\ IF InProgress(uid)
           THEN /\ outcome' = Result("hassio", None, NoRequest, Configured(uid), "abort",
                                     "already_in_progress", NoErrors, None, None)
                /\ UNCHANGED <<entries, flows>>
           ELSE IF Configured(uid)
           THEN /\ LET e == CHOOSE x \in BagToSet(entries) : x.unique_id = uid
                   IN  entries' = (entries (-) One(e))
                                  (+) One([e EXCEPT !.host = host, !.port = port])
                /\ outcome' = Result("hassio", None, NoRequest, TRUE, "abort",
                                     "already_configured", NoErrors, None, None)
                /\ UNCHANGED flows
           ELSE /\ flows' = flows (+) One([step |-> "hassio_confirm",
                                           unique_id |-> Some(uid),
                                           host |-> host, port |-> port])
                /\ outcome' = Result("hassio", None, NoRequest, FALSE, "form",
                                     "hassio_confirm", NoErrors, None, None)
                /\ UNCHANGED entries
        /\ UNCHANGED <<coordVars, probeVars>>

\* async_step_hassio_confirm with user input: the entry is created
StepHassioConfirm(f) ==
    LET e == [unique_id |-> f.unique_id[1], host |-> f.host, port |-> f.port,
              scan_interval |-> DEFAULT_SCAN_INTERVAL]
    IN  /\ f.step = "hassio_confirm"
        /\ entries' = entries (+) One(e)
        /\ flows' = flows (-) One(f)
        /\ outcome' = Result("hassio_confirm", None, NoRequest, Configured(e.unique_id),
                             "create_entry", "", NoErrors, None, Some(e))
        /\ UNCHANGED <<coordVars, probeVars>>

\* async_step_user without input: auto-detection, then the form
StepUserInit(results) ==
    /\ BagCardinality(flows) < MaxFlows
    /\ flows' = flows (+) One([step |-> "user", unique_id |-> None,
                               host |-> DEFAULT_HOST, port |-> ADDON_PORT])
    /\ outcome' = Result("user", None, NoRequest, FALSE, "form", "user", NoErrors,
                         DetectApp(results).result, None)
    /\ UNCHANGED <<entries, coordVars, probeVars>>

\* async_step_user with the submitted form; validation is the end of the GET
\* to the submitted address, results those of the probes that follow a
\* failed validation.
StepUserSubmit(f, user_input, validation) ==
    LET host == user_input.host
        port == user_input.port
        uid == ManualUniqueId(host, port)
        input == Some(<<host, port>>)
        e == [unique_id |-> uid, host |-> host, port |-> port,
              scan_interval |-> Get(user_input, "scan_interval", DEFAULT_SCAN_INTERVAL)]
    IN  /\ f.step = "user"
        /\ IF ValidateConnection(validation)
           THEN IF InProgress(uid)
                THEN /\ outcome' = Result("user", input, validation, Configured(uid), "abort",
                                          "already_in_progress", NoErrors, None, None)
                     /\ flows' = flows (-) One(f)
                     /\ UNCHANGED entries
                ELSE IF Configured(uid)
                THEN /\ outcome' = Result("user", input, validation, TRUE, "abort",
                                          "already_configured", NoErrors, None, None)
                     /\ flows' = flows (-) One(f)
                     /\ UNCHANGED entries
                ELSE /\ entries' = entries (+) One(e)
                     /\ flows' = flows (-) One(f)
                     /\ outcome' = Result("user", input, validation, FALSE, "create_entry", "",
                                          NoErrors, None, Some(e))
           ELSE /\ \E results \in FlowProbeResults :
                      outcome' = Result("user", input, validation, Configured(uid), "form",
                                        "user", [base |-> "cannot_connect"],
                                        DetectApp(results).result, None)
                /\ UNCHANGED <<entries, flows>>
        /\ UNCHANGED <<coordVars, probeVars>>

\* The user closes the dialog of a flow in progress.
CloseFlow(f) ==
    /\ flows' = flows (-) One(f)
    /\ UNCHANGED <<entries, outcome, coordVars, probeVars>>

NextFlow ==
    \/ \E slug \in Slugs, config \in DiscoveryConfigs : StepHassio(slug, config)
    \/ \E f \in BagToSet(flows) : StepHassioConfirm(f)
    \/ \E results \in FlowProbeResults : StepUserInit(results)
    \/ \E f \in BagToSet(flows), user_input \in UserInputs, validation \in ProbeResults :
          StepUserSubmit(f, user_input, validation)
    \/ \E f \in BagToSet(flows) : CloseFlow(f)

SpecFlow == Init /\ [][NextFlow]_vars

(***************************************************************************)
(* Properties of the coordinator and the sensors                           *)
(***************************************************************************)
FailedResponse(l) ==
    \/ l.kind \in {"client_error", "timeout"}
    \/ l.kind = "response" /\ l.status # 200

\* C1: a poll whose POST ends in a non-200 status, a transport error or a
\* timeout ends in UpdateFailed, and only a poll that received status 200
\* returns (publishes) a snapshot.
C1_FailedResponseRaises ==
    /\ FailedResponse(last) => last.result = "update_failed"
    /\ last.result = "returned" => (last.kind = "response" /\ last.status = 200)

\* Number of records of a list whose totalEpisodes is present and > 0.
NumPositive(l) ==
    Cardinality({ i \in 1 .. Len(l) :
                    "totalEpisodes" \in DOMAIN l[i] /\ l[i].totalEpisodes > 0 })

\* C2: in the snapshot published for a list, total is the length of the list,
\* complete + incomplete + critical is the number of records with
\* totalEpisodes > 0, and so is at most total.
C2_CountersCoverPositiveTotals ==
    data # None =>
        LET d == data[1]
            analyzed == d.complete + d.incomplete + d.critical
        IN  /\ d.total = Len(d.series)
            /\ analyzed = NumPositive(d.series)
            /\ analyzed <= d.total

\* A published list of two records, one of them without a positive total.
C2_Witness ==
    /\ data # None
    /\ last.kind = "response" /\ last.status = 200 /\ last.type = "list"
    /\ data[1].total = 2
    /\ data[1].complete + data[1].incomplete + data[1].critical = 1

\* C5: until the first poll that received status 200, every sensor's native
\* value is None.
C5_NoneUntilFirst200 ==
    ~got200 => \A key \in SensorKeys : NativeValue(key, data) = None

\* C10: a poll answered 200 with a JSON body that is not a list returns, and
\* the snapshot it publishes is the all-zero one with an empty series list.
C10_NonListPublishesZeros ==
    (last.kind = "response" /\ last.status = 200 /\ last.type # "list") =>
        /\ last.result = "returned"
        /\ data = Some(EmptySnapshot)
        /\ \A key \in SensorKeys : NativeValue(key, data) = Some(0)

\* A loaded entry whose latest poll got 200 with a JSON object.
C10_Witness ==
    /\ entry_state = "loaded"
    /\ last.kind = "response" /\ last.status = 200 /\ last.type = "object"
    /\ data = Some(EmptySnapshot)

PhaseStep(a, b) ==
    \/ a = "idle" /\ b = "fetching"
    \/ a = "fetching" /\ b \in {"ready", "failed"}
    \/ a \in {"ready", "failed"} /\ b = "fetching"
    \/ b = "idle"

\* C9: the coordinator cycles idle -> fetching -> {ready, failed} -> fetching
\* while the entry is loaded; at most one poll is in flight; a poll of a
\* loaded entry that ends, ready or failed, is followed by a wait of exactly
\* update_interval, after which the next poll starts (unless the entry is
\* unloaded first).
C9_PollCycle ==
    /\ [](inflight <= 1 /\ (inflight = 1 <=> phase = "fetching"))
    /\ [][phase' # phase => PhaseStep(phase, phase')]_vars
    /\ [][(phase = "fetching" /\ phase' \in {"ready", "failed"} /\ entry_state' = "loaded")
            => (update_interval' # None /\ wait' = update_interval'[1])]_vars
    /\ [][(phase \in {"ready", "failed"} /\ phase' = "fetching" /\ entry_state = "loaded")
            => wait = 0]_vars
    /\ (entry_state = "loaded" /\ phase \in {"ready", "failed"})
          ~> (phase = "fetching" \/ entry_state # "loaded")

\* A poll in flight that was started after a failed poll of a loaded entry.
C9_Witness ==
    /\ entry_state = "loaded"
    /\ phase = "fetching"
    /\ last.result = "update_failed"

(***************************************************************************)
(* Properties of the classification and of the percentage                  *)
(***************************************************************************)
OneCounter(d, cls) ==
    /\ d.complete = (IF cls = "complete" THEN 1 ELSE 0)
    /\ d.incomplete = (IF cls = "incomplete" THEN 1 ELSE 0)
    /\ d.critical = (IF cls = "critical" THEN 1 ELSE 0)

\* C3: a record with totalEpisodes > 0 increments exactly one counter:
\* complete when episode_count >= totalEpisodes, critical when
\* 2 * episode_count < totalEpisodes, incomplete otherwise, a missing
\* episode_count counting as 0; (10,10) is complete, (3,10) critical and
\* (6,10) incomplete.
C3_OneCounterByRatio ==
    probe_out # None =>
        LET s == probe[1]
            d == probe_out[1]
            owned == IF "episode_count" \in DOMAIN s THEN s.episode_count ELSE 0
        IN  /\ ("totalEpisodes" \in DOMAIN s /\ s.totalEpisodes > 0) =>
                  /\ owned >= s.totalEpisodes => OneCounter(d, "complete")
                  /\ 2 * owned < s.totalEpisodes => OneCounter(d, "critical")
                  /\ (owned < s.totalEpisodes /\ 2 * owned >= s.totalEpisodes)
                        => OneCounter(d, "incomplete")
            /\ s = [totalEpisodes |-> 10, episode_count |-> 10] => OneCounter(d, "complete")
            /\ s = [totalEpisodes |-> 10, episode_count |-> 3] => OneCounter(d, "critical")
            /\ s = [totalEpisodes |-> 10, episode_count |-> 6] => OneCounter(d, "incomplete")

\* The record (6, 10) polled and counted as incomplete.
C3_Witness ==
    /\ probe = Some([totalEpisodes |-> 10, episode_count |-> 6])
    /\ probe_out # None
    /\ probe_out[1].incomplete = 1

Abs(n) == IF n < 0 THEN -n ELSE n

\* p tenths of a percent is complete / analyzed * 100 rounded to one decimal.
IsRounded(p, complete, analyzed) ==
    2 * Abs(p * analyzed - 1000 * complete) <= analyzed

\* C4 as stated: completion_pct is 0.0 when nothing was classified, otherwise
\* complete / analyzed * 100 rounded to one decimal, within 0.0 .. 100.0, and
\* 100.0 exactly when incomplete = critical = 0 and complete > 0.
C4_PctExactlyWhenAllComplete ==
    probe_out # None =>
        LET c == probe[1]
            p == probe_out[1]
            analyzed == c.complete + c.incomplete + c.critical
        IN  /\ analyzed = 0 => p = 0
            /\ analyzed > 0 => IsRounded(p, c.complete, analyzed)
            /\ 0 <= p /\ p <= 1000
            /\ p = 1000 <=> (c.incomplete = 0 /\ c.critical = 0 /\ c.complete > 0)

\* C4 as amended: as above, but 100.0 is implied by, not equivalent to, all
\* classified records being complete: it is also what at least 99.95 percent
\* complete rounds to.
C4_PctRounded ==
    probe_out # None =>
        LET c == probe[1]
            p == probe_out[1]
            analyzed == c.complete + c.incomplete + c.critical
        IN  /\ analyzed = 0 => p = 0
            /\ analyzed > 0 => IsRounded(p, c.complete, analyzed)
            /\ 0 <= p /\ p <= 1000
            /\ (c.incomplete = 0 /\ c.critical = 0 /\ c.complete > 0) => p = 1000
            /\ p = 1000 =>
                  (c.complete > 0 /\ 2000 * (c.incomplete + c.critical) <= analyzed)

\* 2000 complete and 1 incomplete series, shown as 100.0 percent.
C4_Witness ==
    /\ probe = Some([complete |-> 2000, incomplete |-> 1, critical |-> 0])
    /\ probe_out = Some(1000)

(***************************************************************************)
(* Properties of the config flow                                           *)
(***************************************************************************)
Is200(r) == r.kind = "response" /\ r.status = 200

\* Index of the first hostname that answered 200, 0 when there is none.
First200(results) ==
    IF \E i \in DOMAIN results : Is200(results[i])
    THEN CHOOSE i \in DOMAIN results :
            Is200(results[i]) /\ \A j \in 1 .. (i - 1) : ~Is200(results[j])
    ELSE 0

\* C6: _detect_app probes the hostnames in the order of FALLBACK_HOSTNAMES,
\* returns (hostname, 3000) for the first that answers 200, probes none after
\* it, falls through on non-200, connection error and timeout, and returns
\* None when none answers 200.
C6_FirstHostnameAnswering200 ==
    probe_out # None =>
        LET results == probe[1]
            r == probe_out[1]
            m == First200(results)
        IN  /\ \A i \in 1 .. Len(r.probed) : r.probed[i] = FALLBACK_HOSTNAMES[i]
            /\ m # 0 => (r.result = Some(<<FALLBACK_HOSTNAMES[m], 3000>>)
                         /\ Len(r.probed) = m)
            /\ m = 0 => (r.result = None /\ Len(r.probed) = Len(FALLBACK_HOSTNAMES))

\* The first hostname answers 404, the second times out, the third answers
\* 200 and is returned.
C6_Witness ==
    /\ probe = Some(<<Http(404), [kind |-> "timeout", status |-> 0], Http(200)>>)
    /\ probe_out # None
    /\ probe_out[1].result = Some(<<ADDON_SLUG, 3000>>)
    /\ Len(probe_out[1].probed) = 3

\* C7: a manual submission whose validation fails creates no entry and shows
\* the user form with errors base = cannot_connect; the step creates an
\* entry only after test-connection answered 200, for the submitted host and
\* port.
C7_FailedValidationShowsForm ==
    /\ [](outcome # None =>
            LET o == outcome[1]
            IN  (o.handler = "user" /\ o.input # None) =>
                   /\ ~Is200(o.validation) =>
                         /\ o.type = "form" /\ o.reason = "user"
                         /\ o.errors = [base |-> "cannot_connect"]
                         /\ o.created = None
                   /\ o.type = "create_entry" =>
                         /\ Is200(o.validation)
                         /\ o.created # None
                         /\ <<o.created[1].host, o.created[1].port>> = o.input[1])
    /\ [][(/\ outcome' # None
           /\ outcome'[1].handler = "user"
           /\ outcome'[1].input # None
           /\ ~Is200(outcome'[1].validation)) => entries' = entries]_vars

\* A submission that timed out, shown as a form error, another entry existing.
C7_Witness ==
    /\ outcome # None
    /\ outcome[1].handler = "user"
    /\ outcome[1].input # None
    /\ outcome[1].validation.kind = "timeout"
    /\ outcome[1].type = "form"
    /\ outcome[1].errors = [base |-> "cannot_connect"]
    /\ entries # EmptyBag

NoDuplicateEntries ==
    \A e \in BagToSet(entries) :
        /\ CopiesIn(e, entries) = 1
        /\ \A x \in BagToSet(entries) : x.unique_id = e.unique_id => x = e

HassioDuplicateAborts ==
    outcome # None =>
        ((outcome[1].handler = "hassio" /\ outcome[1].configured)
            => (outcome[1].type = "abort" /\ outcome[1].created = None))

\* C8 as stated: no two entries share a unique id; a discovery whose slug is
\* configured aborts without creating an entry; a manual submission whose
\* host:port identity is configured aborts without creating an entry.
C8_DuplicateSubmissionAborts ==
    /\ NoDuplicateEntries
    /\ HassioDuplicateAborts
    /\ outcome # None =>
          ((outcome[1].handler = "user" /\ outcome[1].input # None
            /\ outcome[1].configured)
              => (outcome[1].type = "abort" /\ outcome[1].created = None))

\* C8 as amended: a manual submission whose identity is configured never
\* creates an entry: it aborts when the connection test answers 200, and
\* otherwise shows the form with cannot_connect.
C8_DuplicateNeverCreated ==
    /\ NoDuplicateEntries
    /\ HassioDuplicateAborts
    /\ outcome # None =>
          ((outcome[1].handler = "user" /\ outcome[1].input # None
            /\ outcome[1].configured)
              => /\ outcome[1].created = None
                 /\ Is200(outcome[1].validation) => outcome[1].type = "abort"
                 /\ ~Is200(outcome[1].validation) =>
                       (outcome[1].type = "form"
                        /\ outcome[1].errors = [base |-> "cannot_connect"]))

\* A validated manual submission of a configured host:port aborted, with a
\* discovered and a manual entry in place.
C8_Witness ==
    /\ outcome # None
    /\ outcome[1].handler = "user"
    /\ outcome[1].configured
    /\ Is200(outcome[1].validation)
    /\ outcome[1].type = "abort"
    /\ BagCardinality(entries) >= 2
    /\ \E e \in BagToSet(entries) : e.unique_id[1] = "hassio"

====
